---- MODULE Spec2Model ----
(***************************************************************************)
(* Flow Map Painter (src/__init__.py): the modal stroke operator           *)
(* FlowmapOperator with its two leaf classes, the direction encoders of    *)
(* the four coordinate spaces, and the temporary triangulated object.      *)
(*                                                                         *)
(* Numbers.  Mouse positions are integer pixels.  A distance is kept as    *)
(* its square (numpy.linalg.norm is the correctly rounded square root of   *)
(* an exactly computed integer, so comparing it with an integer spacing s  *)
(* is comparing the square with s*s).  A lerp result is an exact fraction  *)
(* <<numerator, denominator>> in lowest terms.  A colour channel           *)
(* (unit + 1) * 0.5 is kept by its unit component s * sqrt(p / q).         *)
(***************************************************************************)
EXTENDS Integers, Sequences, FiniteSets, TLC

\* ------------------------------------------------------------------ bounds
MaxX == 4
MaxY == 1
MaxSpacing == 2

Positions == (0 .. MaxX) \X (0 .. MaxY)
Spacings == 0 .. MaxSpacing

\* ------------------------------------------------------------- arithmetic
None == [k |-> "none"]

Abs(i) == IF i < 0 THEN -i ELSE i

Sign(i) == IF i < 0 THEN -1 ELSE IF i > 0 THEN 1 ELSE 0

RECURSIVE GCD(_, _)
GCD(a, b) == IF b = 0 THEN a ELSE GCD(b, a % b)

\* the fraction num / den (den > 0) in lowest terms
Frac(num, den) ==
    LET g == GCD(Abs(num), den)
    IN  <<num \div g, den \div g>>

\* numpy.linalg.norm(a - b), squared
Dist2(a, b) == (a[1] - b[1]) * (a[1] - b[1]) + (a[2] - b[2]) * (a[2] - b[2])

lerp(mix, a, b) == Frac((b - a) * mix[1] + a * mix[2], mix[2])

\* ---------------------------------------------------------------- colours
\* a channel (unit + 1) * 0.5 with unit = d / sqrt(n2), n2 > 0
Channel(d, n2) ==
    LET f == Frac(d * d, n2)
    IN  [k |-> "unit", s |-> Sign(d), p |-> f[1], q |-> f[2]]

\* the literal 0 of a 2D colour's third channel: the value of unit = -1
ChannelZero == [k |-> "unit", s |-> -1, p |-> 1, q |-> 1]

ChannelNaN == [k |-> "nan", s |-> 0, p |-> 0, q |-> 1]

Half == Channel(0, 1)

Color(r, g, b) == [k |-> "color", c |-> <<r, g, b>>]

NeutralColor == Color(Half, Half, Half)

DefaultBrushColor == Color(ChannelZero, ChannelZero, ChannelZero)

isnan(val) == val.k = "nan"

\* ------------------------------------------------------------------ scene
\* The host's scene as the ray caster sees it: the active mesh covers the
\* screen columns x >= 1, the hit under pixel <<x, y>> is the object-local
\* point <<x, y, x>>, the active object is scaled by 2, the mesh's UV layout
\* is mirrored about column UVMirror, and the face under DegenerateFace has
\* zero area, which makes the barycentric transform yield NaN.
UVMirror == 2

DegenerateFace == <<3, 1>>

MatrixWorld(v) == <<2 * v[1], 2 * v[2], 2 * v[3]>>

ActiveInverted(v) == <<v[1] \div 2, v[2] \div 2, v[3] \div 2>>

\* matrix_world.inverted() of the reference object (a quarter turn about z)
ReferenceInverted(v) == <<v[2], -v[1], v[3]>>

obj_ray_cast(area_pos) ==
    IF area_pos[1] >= 1
    THEN [k |-> "hit", co |-> <<area_pos[1], area_pos[2], area_pos[1]>>]
    ELSE None

line_trace_for_pos(area_pos) ==
    LET hit == obj_ray_cast(area_pos)
    IN  IF hit # None
        THEN [hit |-> hit, hit_world |-> [k |-> "hit", co |-> MatrixWorld(hit.co)]]
        ELSE [hit |-> None, hit_world |-> None]

pos_to_uv_co(area_pos) ==
    IF area_pos = DegenerateFace
    THEN [k |-> "nan", u |-> 0, v |-> 0]
    ELSE [k |-> "uv", u |-> Abs(area_pos[1] - UVMirror), v |-> area_pos[2]]

line_trace_for_uv(area_pos) ==
    LET hit == obj_ray_cast(area_pos)
    IN  IF hit # None
        THEN [uv_co |-> pos_to_uv_co(area_pos), hit |-> hit]
        ELSE [uv_co |-> None, hit |-> None]

\* --------------------------------------------------------------- encoders
Result(direction_color, location) ==
    [direction_color |-> direction_color, location |-> location]

Encode2_not_normalized(du, dv) ==
    Color(Channel(du, 1), Channel(dv, 1), ChannelZero)

\* (v / norm + 1) * 0.5 on the first two axes, 0 on the third
Encode2(du, dv) ==
    LET n2 == du * du + dv * dv
    IN  Color(Channel(du, n2), Channel(dv, n2), ChannelZero)

\* (v / norm + 1) * 0.5 on all three axes
Encode3(a, b) ==
    LET d  == <<a[1] - b[1], a[2] - b[2], a[3] - b[3]>>
        n2 == d[1] * d[1] + d[2] * d[2] + d[3] * d[3]
    IN  Color(Channel(d[1], n2), Channel(d[2], n2), Channel(d[3], n2))

ImageEditor_get_direction_color(mouse_position, prev_position) ==
    LET du == mouse_position[1] - prev_position[1]
        dv == mouse_position[2] - prev_position[2]
    IN  IF du = 0 /\ dv = 0
        THEN Result(Color(Half, Half, ChannelZero), None)
        ELSE Result(Encode2(du, dv), None)

get_uv_space_direction_color(area_pos, area_prev_pos) ==
    LET cur  == line_trace_for_uv(area_pos)
        prev == line_trace_for_uv(area_prev_pos)
    IN  IF cur.uv_co = None \/ prev.uv_co = None
        THEN Result(None, None)
        ELSE IF cur.uv_co.k = "nan" \/ prev.uv_co.k = "nan"
        THEN Result(Color(ChannelNaN, ChannelNaN, ChannelZero), cur.hit)
        ELSE IF cur.uv_co.u = prev.uv_co.u /\ cur.uv_co.v = prev.uv_co.v
        THEN Result(None, None)
        ELSE Result(Encode2(cur.uv_co.u - prev.uv_co.u,
                            cur.uv_co.v - prev.uv_co.v), cur.hit)

get_obj_space_direction_color(area_pos, area_prev_pos, reference) ==
    LET cur  == line_trace_for_pos(area_pos)
        prev == line_trace_for_pos(area_prev_pos)
    IN  IF cur.hit_world = None \/ prev.hit_world = None
        THEN Result(None, None)
        ELSE LET hit_obj == IF reference = None
                            THEN ActiveInverted(cur.hit_world.co)
                            ELSE ReferenceInverted(cur.hit_world.co)
                 prev_hit_obj == IF reference = None
                                 THEN ActiveInverted(prev.hit_world.co)
                                 ELSE ReferenceInverted(prev.hit_world.co)
             IN  IF hit_obj = prev_hit_obj
                 THEN Result(None, None)
                 ELSE Result(Encode3(hit_obj, prev_hit_obj), cur.hit)

get_world_space_direction_color(area_pos, area_prev_pos) ==
    LET cur  == line_trace_for_pos(area_pos)
        prev == line_trace_for_pos(area_prev_pos)
    IN  IF cur.hit_world = None \/ prev.hit_world = None
        THEN Result(None, None)
        ELSE IF cur.hit_world.co = prev.hit_world.co
        THEN Result(None, None)
        ELSE Result(Encode3(cur.hit_world.co, prev.hit_world.co), cur.hit)

Viewport_get_direction_color(mouse_position, prev_position, space, reference) ==
    IF space = "uv_space"
    THEN get_uv_space_direction_color(mouse_position, prev_position)
    ELSE IF space = "object_space"
    THEN get_obj_space_direction_color(mouse_position, prev_position, reference)
    ELSE get_world_space_direction_color(mouse_position, prev_position)

\* self.get_direction_color of the operator class in use
get_direction_color(class, mouse_position, prev_position, space, reference) ==
    IF class = "image_editor"
    THEN ImageEditor_get_direction_color(mouse_position, prev_position)
    ELSE Viewport_get_direction_color(mouse_position, prev_position, space, reference)

\* ------------------------------------------------------------------ state
VARIABLES
    status,                 \* "ready", "running", "finished" or "error"
    class,                  \* "image_editor" or "3d_viewport"
    flowmap_brush_spacing,  \* scene property, >= 0
    flowmap_space_type,     \* scene property
    flowmap_object,         \* scene property: None or "reference"
    furthest_position,
    mouse_prev_position,
    pressing,
    cursor,                 \* self.cursor: None or the draw handler
    draw_handlers,          \* handlers registered with the host's space type
    color,                  \* unified_paint_settings.color
    meshes,                 \* names in bpy.data.meshes
    objects,                \* names in bpy.data.objects
    event,                  \* the event handled last
    distance,               \* its local distance, squared (-1: not computed)
    direction_color,        \* its local direction_color (NotCalled: no call)
    dots                    \* its paint_a_dot calls, in order

vars == <<status, class, flowmap_brush_spacing, flowmap_space_type,
          flowmap_object, furthest_position, mouse_prev_position, pressing,
          cursor, draw_handlers, color, meshes, objects, event, distance,
          direction_color, dots>>

\* the locals of an event that does not reach the distance test
NotCalled == [k |-> "uncalled"]

no_sample == distance' = -1 /\ direction_color' = NotCalled /\ dots' = <<>>

settings == <<class, flowmap_brush_spacing, flowmap_space_type, flowmap_object>>

Handler == [k |-> "handler"]

Event(type, value, mouse) == [type |-> type, value |-> value, mouse |-> mouse]

\* ----------------------------------------------------------- temp objects
remove_temp_obj(data) ==
    [meshes  |-> data.meshes \ {"FLOWMAP_temp_mesh"},
     objects |-> data.objects \ {"FLOWMAP_temp_obj"}]

\* the copy of the template, its data copy, the evaluated (triangulated)
\* mesh and the object FLOWMAP_temp_obj that carries it; the copy is removed
triangulate_object(data) ==
    LET clean == remove_temp_obj(data)
    IN  [meshes  |-> clean.meshes \cup {"template_mesh_copy", "mesh_from_eval"},
         objects |-> clean.objects \cup {"FLOWMAP_temp_obj"}]

startup(cls, data) ==
    IF cls = "3d_viewport" THEN triangulate_object(data) ELSE data

cleanup(cls, data) ==
    IF cls = "3d_viewport" THEN remove_temp_obj(data) ELSE data

\* ----------------------------------------------------------------- cursor
\* the host's registry after clear_cursor
clear_cursor(cur, handlers) ==
    IF cur # None
    THEN [cursor |-> None, draw_handlers |-> handlers - 1]
    ELSE [cursor |-> None, draw_handlers |-> handlers]

redraw_cursor(cur, handlers) ==
    LET cleared == clear_cursor(cur, handlers)
    IN  [cursor |-> Handler, draw_handlers |-> cleared.draw_handlers + 1]

\* ------------------------------------------------------------ stroke steps
SpacingReached_half(distance2, spacing) == 4 * distance2 >= spacing * spacing

\* distance >= flowmap_brush_spacing
SpacingReached(distance2, spacing) == distance2 >= spacing * spacing

\* distance > 2 * flowmap_brush_spacing
NeedsSubsteps(distance2, spacing) == distance2 > 4 * spacing * spacing

\* int(distance / flowmap_brush_spacing), spacing > 0
substeps_int(distance2, spacing) ==
    CHOOSE n \in 0 .. distance2 :
        /\ n * n * spacing * spacing <= distance2
        /\ (n + 1) * (n + 1) * spacing * spacing > distance2

ColorIsUsable_not_none(col) == col # None

\* the guard of the brush-colour assignment
ColorIsUsable(col) ==
    /\ col # None
    /\ ~ \E i \in 1 .. 3 : isnan(col.c[i])

SetBrushColor(old, col) ==
    IF ColorIsUsable(col) THEN col ELSE old

Paints_always(is_pressing) == TRUE

\* if self.pressing
Paints(is_pressing) == is_pressing

paint_a_dot(mouse_position, location) ==
    [mouse |-> mouse_position, location |-> location]

\* the while loop: substep_count, substep_count - 1, ..., 1
RECURSIVE SubstepDots(_, _, _, _, _)
SubstepDots(substep_count, n, prev, mouse_position, location) ==
    IF substep_count > 0
    THEN <<paint_a_dot(<<lerp(<<substep_count, n>>, prev[1], mouse_position[1]),
                         lerp(<<substep_count, n>>, prev[2], mouse_position[2])>>,
                       location)>>
         \o SubstepDots(substep_count - 1, n, prev, mouse_position, location)
    ELSE <<>>

\* the dots of one sample while the button is held, spacing > 0
StrokeDots(distance2, spacing, prev, mouse_position, location) ==
    IF NeedsSubsteps(distance2, spacing)
    THEN SubstepDots(substeps_int(distance2, spacing),
                     substeps_int(distance2, spacing), prev, mouse_position, location)
    ELSE <<paint_a_dot(<<Frac(mouse_position[1], 1), Frac(mouse_position[2], 1)>>,
                       location)>>

\* distance / flowmap_brush_spacing is inf or nan when the spacing is 0, and
\* int() of it raises OverflowError or ValueError
SubstepsRaise(spacing) == spacing = 0

\* ------------------------------------------------------------------- Init
Init ==
    /\ status = "ready"
    /\ class \in {"image_editor", "3d_viewport"}
    /\ flowmap_brush_spacing \in Spacings
    /\ flowmap_space_type \in {"uv_space", "object_space", "world_space"}
    /\ flowmap_object \in {None, [k |-> "reference"]}
    /\ class = "image_editor" =>
           flowmap_space_type = "uv_space" /\ flowmap_object = None
    /\ flowmap_space_type # "object_space" => flowmap_object = None
    /\ furthest_position = <<0, 0>>
    /\ mouse_prev_position = <<0, 0>>
    /\ pressing = FALSE
    /\ cursor = None
    /\ draw_handlers = 0
    /\ color = DefaultBrushColor
    /\ meshes = {"template_mesh"}
    /\ objects = {"template"}
    /\ event = Event("NONE", "NONE", <<0, 0>>)
    /\ distance = -1
    /\ direction_color = NotCalled
    /\ dots = <<>>

\* ---------------------------------------------------------------- actions
invoke ==
    /\ status = "ready"
    /\ status' = "running"
    /\ pressing' = FALSE
    /\ LET data == startup(class, [meshes |-> meshes, objects |-> objects])
       IN  meshes' = data.meshes /\ objects' = data.objects
    /\ event' = Event("INVOKE", "NONE", <<0, 0>>)
    /\ no_sample
    /\ UNCHANGED <<settings, furthest_position, mouse_prev_position, cursor,
                   draw_handlers, color>>

modal_press(mouse) ==
    /\ status = "running"
    /\ furthest_position' = mouse
    /\ pressing' = TRUE
    /\ event' = Event("LEFTMOUSE", "PRESS", mouse)
    /\ no_sample
    /\ UNCHANGED <<status, settings, mouse_prev_position, cursor, draw_handlers,
                   color, meshes, objects>>

modal_release_resets_prev ==
    /\ status = "running"
    /\ pressing' = FALSE
    /\ mouse_prev_position' = <<0, 0>>
    /\ event' = Event("LEFTMOUSE", "RELEASE", <<0, 0>>)
    /\ no_sample
    /\ UNCHANGED <<status, settings, furthest_position, cursor, draw_handlers,
                   color, meshes, objects>>

\* the handler does not read the position of a release
modal_release ==
    /\ status = "running"
    /\ pressing' = FALSE
    /\ event' = Event("LEFTMOUSE", "RELEASE", <<0, 0>>)
    /\ no_sample
    /\ UNCHANGED <<status, settings, furthest_position, mouse_prev_position,
                   cursor, draw_handlers, color, meshes, objects>>

modal_mousemove(mouse) ==
    /\ status = "running"
    /\ event' = Event("MOUSEMOVE", "NONE", mouse)
    /\ distance' = Dist2(furthest_position, mouse)
    /\ LET result == get_direction_color(class, mouse, mouse_prev_position,
                                         flowmap_space_type, flowmap_object)
           redrawn == redraw_cursor(cursor, draw_handlers)
       IN  IF SpacingReached(distance', flowmap_brush_spacing)
           THEN /\ furthest_position' = mouse
                /\ direction_color' = result.direction_color
                /\ color' = SetBrushColor(color, result.direction_color)
                /\ IF Paints(pressing) /\ SubstepsRaise(flowmap_brush_spacing)
                   THEN /\ status' = "error"
                        /\ dots' = <<>>
                        /\ UNCHANGED <<mouse_prev_position, cursor, draw_handlers>>
                   ELSE /\ dots' = IF Paints(pressing)
                                   THEN StrokeDots(distance', flowmap_brush_spacing,
                                                   mouse_prev_position, mouse,
                                                   result.location)
                                   ELSE <<>>
                        /\ mouse_prev_position' = mouse
                        /\ cursor' = redrawn.cursor
                        /\ draw_handlers' = redrawn.draw_handlers
                        /\ UNCHANGED status
           ELSE /\ direction_color' = NotCalled
                /\ dots' = <<>>
                /\ cursor' = redrawn.cursor
                /\ draw_handlers' = redrawn.draw_handlers
                /\ UNCHANGED <<status, furthest_position, mouse_prev_position, color>>
    /\ UNCHANGED <<settings, pressing, meshes, objects>>

modal_esc_keeps_color ==
    /\ status = "running"
    /\ LET cleared == clear_cursor(cursor, draw_handlers)
       IN  cursor' = cleared.cursor /\ draw_handlers' = cleared.draw_handlers
    /\ LET data == cleanup(class, [meshes |-> meshes, objects |-> objects])
       IN  meshes' = data.meshes /\ objects' = data.objects
    /\ status' = "finished"
    /\ event' = Event("ESC", "PRESS", <<0, 0>>)
    /\ no_sample
    /\ UNCHANGED <<settings, furthest_position, mouse_prev_position, pressing, color>>

modal_esc ==
    /\ status = "running"
    /\ color' = NeutralColor
    /\ LET cleared == clear_cursor(cursor, draw_handlers)
       IN  cursor' = cleared.cursor /\ draw_handlers' = cleared.draw_handlers
    /\ LET data == cleanup(class, [meshes |-> meshes, objects |-> objects])
       IN  meshes' = data.meshes /\ objects' = data.objects
    /\ status' = "finished"
    /\ event' = Event("ESC", "PRESS", <<0, 0>>)
    /\ no_sample
    /\ UNCHANGED <<settings, furthest_position, mouse_prev_position, pressing>>

\* any other event: {'PASS_THROUGH'}
modal_pass_through ==
    /\ status = "running"
    /\ event' = Event("OTHER", "PRESS", <<0, 0>>)
    /\ no_sample
    /\ UNCHANGED <<status, settings, furthest_position, mouse_prev_position,
                   pressing, cursor, draw_handlers, color, meshes, objects>>

Next ==
    \/ invoke
    \/ \E mouse \in Positions : modal_press(mouse)
    \/ modal_release
    \/ \E mouse \in Positions : modal_mousemove(mouse)
    \/ modal_esc
    \/ modal_pass_through

Spec == Init /\ [][Next]_vars

\* ================================================================= claims
Moved == event'.type = "MOUSEMOVE"

Threshold2 == flowmap_brush_spacing * flowmap_brush_spacing

\* the pixel position as a dot position
At(pos) == <<Frac(pos[1], 1), Frac(pos[2], 1)>>

\* the point at fraction k / n of the segment from a to b
Interp(a, b, k, n) ==
    <<Frac(a[1] * n + (b[1] - a[1]) * k, n), Frac(a[2] * n + (b[2] - a[2]) * k, n)>>

Returned(col) == col # NotCalled /\ col # None

FiniteColor(col) == \A i \in 1 .. 3 : col.c[i].k = "unit"

\* what a position update does to the brush colour
ColorRule ==
    IF Returned(direction_color') /\ FiniteColor(direction_color')
    THEN color' = direction_color'
    ELSE color' = color

\* C1 as stated: a position update less than the spacing away from the
\* position update before it emits no dot and leaves furthest_position alone.
C1_ConsecutiveMovesBelowSpacing ==
    [][(/\ event.type = "MOUSEMOVE"
        /\ Moved
        /\ Dist2(event.mouse, event'.mouse) < Threshold2)
       => (dots' = <<>> /\ furthest_position' = furthest_position)]_vars

\* C1 amended: a position update less than the spacing away from
\* furthest_position emits no dot and changes neither furthest_position,
\* mouse_prev_position nor the brush colour, whether or not the button is held.
C1_MovesBelowSpacingOfFurthest ==
    [][(Moved /\ Dist2(furthest_position, event'.mouse) < Threshold2)
       => (/\ dots' = <<>>
           /\ direction_color' = NotCalled
           /\ UNCHANGED <<furthest_position, mouse_prev_position, color, status>>)]_vars

C1_Witness ==
    /\ event.type = "MOUSEMOVE"
    /\ pressing
    /\ distance > 0
    /\ distance < Threshold2
    /\ event.mouse # furthest_position
    /\ dots = <<>>

\* C2: while the button is held, a position update more than twice the
\* spacing from furthest_position emits n = floor(distance / spacing) dots, at
\* the fractions n/n, (n-1)/n, ..., 1/n of the segment from
\* mouse_prev_position to the new position, the first at the new position.
C2_SubdividedDots ==
    [][(Moved /\ pressing /\ distance' > 4 * Threshold2)
       => (/\ Len(dots') >= 1
           /\ dots'[1].mouse = At(event'.mouse)
           /\ \A n \in 1 .. distance' :
                  (n * n * Threshold2 <= distance'
                       /\ distance' < (n + 1) * (n + 1) * Threshold2)
                  => (/\ Len(dots') = n
                      /\ \A i \in 1 .. n :
                             dots'[i].mouse = Interp(mouse_prev_position,
                                                     event'.mouse, n + 1 - i, n)))]_vars

\* The statement of C2 for a spacing above 0.
SubdividedDotsPositiveSpacing ==
    [][(Moved /\ pressing /\ flowmap_brush_spacing > 0 /\ distance' > 4 * Threshold2)
       => (/\ dots'[1].mouse = At(event'.mouse)
           /\ \E n \in 2 .. distance' :
                  /\ n * n * Threshold2 <= distance'
                  /\ distance' < (n + 1) * (n + 1) * Threshold2
                  /\ Len(dots') = n
                  /\ \A i \in 1 .. n :
                         dots'[i].mouse = Interp(mouse_prev_position,
                                                 event'.mouse, n + 1 - i, n))]_vars

\* C3: while the button is held, a position update at least the spacing and
\* at most twice the spacing from furthest_position emits exactly one dot, at
\* the new position.
C3_SingleDot ==
    [][(Moved /\ pressing /\ Threshold2 <= distance' /\ distance' <= 4 * Threshold2)
       => (Len(dots') = 1 /\ dots'[1].mouse = At(event'.mouse))]_vars

\* The statement of C3 for a spacing above 0.
SingleDotPositiveSpacing ==
    [][(/\ Moved
        /\ pressing
        /\ flowmap_brush_spacing > 0
        /\ Threshold2 <= distance'
        /\ distance' <= 4 * Threshold2)
       => (Len(dots') = 1 /\ dots'[1].mouse = At(event'.mouse))]_vars

\* C4: a position update sets the brush colour to the encoder's result when
\* that is a colour with finite channels and leaves it unchanged otherwise;
\* the brush colour is finite in every state.
C4_BrushColorFinite ==
    /\ [](FiniteColor(color))
    /\ [][Moved => ColorRule]_vars

C4_Witness ==
    /\ event.type = "MOUSEMOVE"
    /\ Returned(direction_color)
    /\ isnan(direction_color.c[1])
    /\ FiniteColor(color)
    /\ furthest_position = event.mouse

\* C5: a position update of a 3D mode for which the encoder returns none
\* emits no dot and leaves the brush colour, furthest_position and
\* mouse_prev_position unchanged.
C5_MissRetainsState ==
    [][(Moved /\ class = "3d_viewport" /\ direction_color' = None)
       => (/\ dots' = <<>>
           /\ UNCHANGED <<color, furthest_position, mouse_prev_position>>)]_vars

\* C6: a cancel event, button up or down, sets the brush colour to
\* (0.5, 0.5, 0.5) and ends the session; no event is handled after it, so the
\* colour stays and no dot follows.
C6_CancelNeutralises ==
    /\ [](status = "running" => ENABLED modal_esc)
    /\ [](status = "finished"
            => (event.type = "ESC" /\ color = NeutralColor /\ dots = <<>>))
    /\ [][event'.type = "ESC"
            => (status' = "finished" /\ color' = NeutralColor /\ dots' = <<>>)]_vars

C6_Witness ==
    /\ status = "finished"
    /\ pressing
    /\ furthest_position # <<0, 0>>
    /\ mouse_prev_position = furthest_position
    /\ color = NeutralColor

\* C7: when the session has ended no temporary mesh or object exists and no
\* cursor draw handler is registered; at most one draw handler is registered
\* at any time.
C7_SessionEndReleases ==
    /\ draw_handlers <= 1
    /\ status \in {"finished", "error"}
           => (/\ cursor = None
               /\ draw_handlers = 0
               /\ meshes = {"template_mesh"}
               /\ objects = {"template"})

\* C8: no event raises an error, whatever the spacing.
C8_NoEventFatal == status # "error"

\* C9: a direction computed from two coincident positions is none, and the
\* event leaves the brush colour unchanged.
C9_CoincidentIsNone ==
    [][(/\ Moved
        /\ direction_color' # NotCalled
        /\ event'.mouse = mouse_prev_position)
       => (direction_color' = None /\ color' = color)]_vars

\* C10: a position update with the button up emits no dot; when it is at
\* least the spacing from furthest_position it still runs the brush-colour
\* update and commits furthest_position and mouse_prev_position.
C10_NoDotsWhileIdle ==
    [][(Moved /\ ~pressing)
       => (/\ dots' = <<>>
           /\ distance' >= Threshold2
                  => (/\ direction_color' # NotCalled
                      /\ ColorRule
                      /\ furthest_position' = event'.mouse
                      /\ mouse_prev_position' = event'.mouse
                      /\ status' = "running"))]_vars

C10_Witness ==
    /\ event.type = "MOUSEMOVE"
    /\ ~pressing
    /\ flowmap_brush_spacing > 0
    /\ distance > 4 * Threshold2
    /\ dots = <<>>
    /\ furthest_position = event.mouse
    /\ mouse_prev_position = event.mouse
    /\ color = direction_color

\* The position of a screen point in the coordinate space in use, None when
\* the ray misses or the point has no finite coordinates there.
SpacePoint(p) ==
    IF class = "image_editor"
    THEN [k |-> "point", co |-> <<p[1], p[2]>>]
    ELSE IF obj_ray_cast(p) = None
    THEN None
    ELSE IF flowmap_space_type = "uv_space"
    THEN IF pos_to_uv_co(p).k = "nan"
         THEN None
         ELSE [k |-> "point", co |-> <<pos_to_uv_co(p).u, pos_to_uv_co(p).v>>]
    ELSE IF flowmap_space_type = "object_space"
    THEN [k |-> "point",
          co |-> IF flowmap_object = None
                 THEN ActiveInverted(line_trace_for_pos(p).hit_world.co)
                 ELSE ReferenceInverted(line_trace_for_pos(p).hit_world.co)]
    ELSE [k |-> "point", co |-> line_trace_for_pos(p).hit_world.co]

SumSquares(v) ==
    IF Len(v) = 2 THEN v[1] * v[1] + v[2] * v[2]
    ELSE v[1] * v[1] + v[2] * v[2] + v[3] * v[3]

\* channel ch is (u + 1) * 0.5 for the component u = d / sqrt(n2) of a unit
\* vector, and so lies in [0, 1]
EncodesComponent(ch, d, n2) ==
    /\ ch.k = "unit"
    /\ ch.s = Sign(d)
    /\ ch.p * n2 = ch.q * d * d
    /\ ch.p <= ch.q

\* C11: for two distinct positions of the coordinate space the encoder
\* returns a colour with every channel in [0, 1], channel i being
\* (unit[i] + 1) * 0.5 of the normalised difference and the third channel 0
\* in the 2D spaces; screen space, previous (0,0), current (10,0) gives
\* (1.0, 0.5, 0).
C11_EncodedChannels ==
    /\ [](ImageEditor_get_direction_color(<<10, 0>>, <<0, 0>>).direction_color
              = Color(Channel(1, 1), Half, ChannelZero))
    /\ [][(Moved /\ direction_color' # NotCalled)
          => \A cur \in {SpacePoint(event'.mouse)} :
             \A prev \in {SpacePoint(mouse_prev_position)} :
                 (cur # None /\ prev # None /\ cur # prev)
                 => \A d \in {[i \in 1 .. Len(cur.co) |-> cur.co[i] - prev.co[i]]} :
                    \A n2 \in {SumSquares(d)} :
                        /\ Returned(direction_color')
                        /\ \A i \in 1 .. Len(d) :
                               EncodesComponent(direction_color'.c[i], d[i], n2)
                        /\ Len(d) = 2 => direction_color'.c[3] = ChannelZero]_vars

C11_Witness ==
    /\ event.type = "MOUSEMOVE"
    /\ class = "3d_viewport"
    /\ flowmap_space_type = "uv_space"
    /\ Returned(direction_color)
    /\ FiniteColor(direction_color)
    /\ direction_color.c[1].p > 0
    /\ direction_color.c[1].p < direction_color.c[1].q
    /\ color = direction_color

\* C12: a button press at p sets furthest_position and the previous endpoint
\* mouse_prev_position to p and the session to stroking, emits no dot and
\* leaves the brush colour unchanged.
C12_PressSetsAnchor ==
    [][event'.value = "PRESS" /\ event'.type = "LEFTMOUSE"
       => (/\ furthest_position' = event'.mouse
           /\ mouse_prev_position' = event'.mouse
           /\ pressing'
           /\ dots' = <<>>
           /\ color' = color)]_vars

\* C13: a button release clears pressing, emits no dot and leaves
\* mouse_prev_position, furthest_position and the brush colour unchanged; a
\* press right after a release finds the previous endpoint it had before.
C13_ReleaseKeepsEndpoint ==
    /\ [][event'.value = "RELEASE"
          => (/\ ~pressing'
              /\ dots' = <<>>
              /\ status' = "running"
              /\ UNCHANGED <<mouse_prev_position, furthest_position, color>>)]_vars
    /\ [][event.value = "RELEASE" /\ event'.value = "PRESS"
          => mouse_prev_position' = mouse_prev_position]_vars

C13_Witness ==
    /\ event.value = "RELEASE"
    /\ ~pressing
    /\ mouse_prev_position # <<0, 0>>
    /\ furthest_position # mouse_prev_position
    /\ color # DefaultBrushColor

\* C14: mouse_prev_position changes only in a position update at least the
\* spacing from furthest_position; after such an update furthest_position and
\* mouse_prev_position are the new position, the direction and the dots were
\* computed from the old mouse_prev_position, and any other event leaves
\* mouse_prev_position unchanged.
C14_PrevCommittedWithSample ==
    [][/\ (Moved /\ distance' >= Threshold2)
          => (/\ furthest_position' = event'.mouse
              /\ mouse_prev_position' = event'.mouse
              /\ direction_color'
                     = get_direction_color(class, event'.mouse, mouse_prev_position,
                                           flowmap_space_type,
                                           flowmap_object).direction_color
              /\ \A i \in 1 .. Len(dots') :
                     dots'[i].mouse = Interp(mouse_prev_position, event'.mouse,
                                             Len(dots') + 1 - i, Len(dots')))
       /\ ~(Moved /\ distance' >= Threshold2)
          => mouse_prev_position' = mouse_prev_position]_vars

\* The statement of C14 for a spacing above 0.
PrevCommittedPositiveSpacing ==
    [][flowmap_brush_spacing > 0
       => (/\ (Moved /\ distance' >= Threshold2)
              => (/\ furthest_position' = event'.mouse
                  /\ mouse_prev_position' = event'.mouse
                  /\ \A i \in 1 .. Len(dots') :
                         dots'[i].mouse = Interp(mouse_prev_position, event'.mouse,
                                                 Len(dots') + 1 - i, Len(dots')))
           /\ ~(Moved /\ distance' >= Threshold2)
              => mouse_prev_position' = mouse_prev_position)]_vars

\* the squared distance of two dot positions is at most bound2
DotsWithin(a, b, bound2) ==
    LET dx == (a[1][1] * b[1][2] - b[1][1] * a[1][2]) * a[2][2] * b[2][2]
        dy == (a[2][1] * b[2][2] - b[2][1] * a[2][2]) * a[1][2] * b[1][2]
        l  == a[1][2] * b[1][2] * a[2][2] * b[2][2]
    IN  dx * dx + dy * dy <= bound2 * l * l

\* dot position pt lies on the segment from pixel a to pixel b
OnSegment(pt, a, b) ==
    LET den == pt[1][2] * pt[2][2]
        px  == pt[1][1] * pt[2][2] - a[1] * den
        py  == pt[2][1] * pt[1][2] - a[2] * den
        bx  == b[1] - a[1]
        by  == b[2] - a[2]
    IN  /\ bx * py - by * px = 0
        /\ px * bx + py * by >= 0
        /\ px * bx + py * by <= (bx * bx + by * by) * den

\* C15: with a spacing above 0, the dots of a subdivided position update are
\* pairwise-adjacent at most twice the spacing apart and all lie on the
\* segment from the furthest_position at the start of the event to the new
\* position, also for the first sample after a press.
C15_NoGaps ==
    [][(Moved /\ pressing /\ flowmap_brush_spacing > 0 /\ Len(dots') > 1)
       => (/\ \A i \in 1 .. Len(dots') - 1 :
                  DotsWithin(dots'[i].mouse, dots'[i + 1].mouse, 4 * Threshold2)
           /\ \A i \in 1 .. Len(dots') :
                  OnSegment(dots'[i].mouse, furthest_position, event'.mouse))]_vars

====
